---- MODULE Spec2Model ----
(***************************************************************************)
(* find-undef-syms: main, parse_file and check_symbols of                  *)
(* src/src/find-undef-syms.cpp as a state machine.                         *)
(*                                                                         *)
(* A file is a sequence of bytes.  Multi-byte fields are read from the     *)
(* buffer as little-endian byte sequences and the C unsigned arithmetic on *)
(* them is done bytewise with carry, modulo the width of the C type, so    *)
(* that e_shoff and sh_offset keep their 32- or 64-bit width.              *)
(***************************************************************************)
EXTENDS Integers, Sequences, FiniteSets, TLC

(* ------------------------------ bounds --------------------------------- *)
MaxArgs  == 2      \* longest batch of paths given to main
MaxShnum == 3      \* largest e_shnum written into a generated file
MaxSyms  == 2      \* most symbol entries in a generated symbol table

(* ------------------- unsigned little-endian arithmetic ----------------- *)
\* k-th byte (k = 0 is least significant) of a natural below 2^31
ByteOf(v, k) ==
    IF k = 0 THEN v % 256
    ELSE IF k = 1 THEN (v \div 256) % 256
    ELSE IF k = 2 THEN (v \div 65536) % 256
    ELSE IF k = 3 THEN v \div 16777216
    ELSE 0

\* a natural below 2^31 as an n-byte unsigned integer
ToLE(v, n) == [k \in 1..n |-> ByteOf(v, k - 1)]

\* conversion of an unsigned integer to an n-byte unsigned type:
\* zero-extension when n is wider, truncation (mod 2^(8n)) when narrower
Conv(a, n) == [k \in 1..n |-> IF k <= Len(a) THEN a[k] ELSE 0]

RECURSIVE CarryInto(_, _, _)
CarryInto(a, b, k) ==
    IF k = 1 THEN 0
    ELSE (a[k - 1] + b[k - 1] + CarryInto(a, b, k - 1)) \div 256

\* a + b in an n-byte unsigned type (wraps modulo 2^(8n))
AddLE(a, b, n) ==
    LET x == Conv(a, n)
        y == Conv(b, n)
    IN  [k \in 1..n |-> (x[k] + y[k] + CarryInto(x, y, k)) % 256]

\* a > b for unsigned integers of any byte lengths
GreaterLE(a, b) ==
    LET n == IF Len(a) > Len(b) THEN Len(a) ELSE Len(b)
        x == Conv(a, n)
        y == Conv(b, n)
    IN  \E k \in 1..n : /\ x[k] > y[k]
                        /\ \A j \in (k + 1)..n : x[j] = y[j]

\* 2^(8n) - v as an n-byte unsigned integer, for 1 <= v < 2^31
NegLE(v, n) == [k \in 1..n |-> 255 - ByteOf(v - 1, k - 1)]

\* value of an unsigned integer known to be below 2^31
ToNat(a) ==
    LET x == Conv(a, 4)
    IN  x[1] + 256 * x[2] + 65536 * x[3] + 16777216 * x[4]

(* ------------------------- ELF structure layout ------------------------ *)
SHT_SYMTAB == 2
ELFCLASS32 == 1
ELFCLASS64 == 2
ELFDATA2LSB == 1
EI_CLASS == 4
EI_DATA == 5

SizeofElf32_Ehdr == 52
SizeofElf64_Ehdr == 64
SizeofElf32_Shdr == 40
SizeofElf64_Shdr == 64

\* sizeof(ElfHeaderType) and sizeof(ElfSectionHeaderType) of an instantiation
SizeofEhdr(cls) == IF cls = ELFCLASS32 THEN SizeofElf32_Ehdr ELSE SizeofElf64_Ehdr
SizeofShdr(cls) == IF cls = ELFCLASS32 THEN SizeofElf32_Shdr ELSE SizeofElf64_Shdr

\* width in bytes of Elf{32,64}_Off and of sh_size (Elf32_Word / Elf64_Xword)
OffBytes(cls) == IF cls = ELFCLASS32 THEN 4 ELSE 8

\* byte offsets of the fields the scanner reads
Off_e_shoff(cls)   == IF cls = ELFCLASS32 THEN 32 ELSE 40
Off_e_shnum(cls)   == IF cls = ELFCLASS32 THEN 48 ELSE 60
Off_sh_type(cls)   == 4
Off_sh_offset(cls) == IF cls = ELFCLASS32 THEN 16 ELSE 24
Off_sh_size(cls)   == IF cls = ELFCLASS32 THEN 20 ELSE 32
Off_sh_entsize(cls) == IF cls = ELFCLASS32 THEN 36 ELSE 56

\* symbol record layout (Elf32_Sym / Elf64_Sym)
SizeofSym(cls)      == IF cls = ELFCLASS32 THEN 16 ELSE 24
Off_st_info(cls)    == IF cls = ELFCLASS32 THEN 12 ELSE 4
Off_st_shndx(cls)   == IF cls = ELFCLASS32 THEN 14 ELSE 6

\* n bytes of the mapping starting at byte offset off; the mapping's last
\* page is zero-filled past the end of the file
ReadLE(buf, off, n) ==
    [k \in 1..n |-> IF off + k <= Len(buf) THEN buf[off + k] ELSE 0]

(* --------------------------- generated files --------------------------- *)
ElfMagic == <<127, 69, 76, 70>>      \* 0x7F 'E' 'L' 'F'
NotMagic == <<35, 33, 47, 98>>       \* "#!/b"

Zeros(n) == [k \in 1..n |-> 0]

\* buf with the bytes b written at offset off; bytes past the end are cut off
Put(buf, off, b) ==
    [k \in 1..Len(buf) |->
        IF k > off /\ k <= off + Len(b) THEN b[k - off] ELSE buf[k]]

\* a file of the given size holding only identification bytes
RawFile(size, magic, cls, data) ==
    Put(Zeros(size), 0, (IF magic THEN ElfMagic ELSE NotMagic) \o <<cls, data>>)

\* binding GLOBAL (1) in the high nibble of st_info, type in the low nibble
SymKinds ==
    { [info |-> 16, shndx |-> 0],     \* NOTYPE GLOBAL UND
      [info |-> 16, shndx |-> 1],     \* NOTYPE GLOBAL, defined in section 1
      [info |-> 18, shndx |-> 0] }    \* FUNC   GLOBAL UND

SymLists == UNION { [1..n -> SymKinds] : n \in 0..MaxSyms }

\* section types per index: index 0 is NULL (0) or SYMTAB, the others
\* PROGBITS (1) or SYMTAB
TypeLists ==
    UNION { { t \in [1..n -> {0, 1, SHT_SYMTAB}] :
                \A j \in 1..n : IF j = 1 THEN t[j] # 1 ELSE t[j] # 0 }
            : n \in 0..MaxShnum }

\* where the generated file keeps its section table and its symbol records
TableAt(cls) == SizeofEhdr(cls)
DataAt(cls, types) == SizeofEhdr(cls) + Len(types) * SizeofShdr(cls)

RECURSIVE PutSections(_, _, _, _, _, _)
PutSections(buf, cls, types, symoff, symsize, j) ==
    IF j > Len(types) THEN buf
    ELSE LET at == TableAt(cls) + (j - 1) * SizeofShdr(cls)
             b1 == Put(buf, at + Off_sh_type(cls), ToLE(types[j], 4))
             b2 == IF types[j] = SHT_SYMTAB
                   THEN Put(Put(Put(b1, at + Off_sh_offset(cls), symoff),
                                at + Off_sh_size(cls), symsize),
                            at + Off_sh_entsize(cls),
                            ToLE(SizeofSym(cls), OffBytes(cls)))
                   ELSE b1
         IN  PutSections(b2, cls, types, symoff, symsize, j + 1)

RECURSIVE PutSyms(_, _, _, _, _)
PutSyms(buf, cls, at, syms, k) ==
    IF k > Len(syms) THEN buf
    ELSE LET o == at + (k - 1) * SizeofSym(cls)
         IN  PutSyms(Put(Put(buf, o + Off_st_info(cls), <<syms[k].info>>),
                         o + Off_st_shndx(cls), ToLE(syms[k].shndx, 2)),
                     cls, at, syms, k + 1)

\* a little-endian ELF file: header, Len(types) section headers right after
\* it, then the symbol records; e_shoff, sh_offset and sh_size of the symbol
\* tables are whatever the caller writes
ElfFile(cls, shoff, types, symoff, symsize, syms) ==
    LET size == DataAt(cls, types) + Len(syms) * SizeofSym(cls)
        b0 == RawFile(size, TRUE, cls, ELFDATA2LSB)
        b1 == Put(b0, Off_e_shoff(cls), shoff)
        b2 == Put(b1, Off_e_shnum(cls), ToLE(Len(types), 2))
        b3 == PutSections(b2, cls, types, symoff, symsize, 1)
    IN  PutSyms(b3, cls, DataAt(cls, types), syms, 1)

Classes == {ELFCLASS32, ELFCLASS64}

\* files whose identification bytes decide the outcome
IdentFiles ==
    { RawFile(size, magic, cls, data) :
        size \in {0, 51, 52, 63, 64}, magic \in BOOLEAN,
        cls \in {ELFCLASS32, ELFCLASS64, 3}, data \in {ELFDATA2LSB, 2} }

\* files with sound symbol tables
SoundFiles ==
    { ElfFile(cls, ToLE(TableAt(cls), OffBytes(cls)), types,
              ToLE(DataAt(cls, types), OffBytes(cls)),
              ToLE(Len(syms) * SizeofSym(cls), OffBytes(cls)), syms) :
        cls \in Classes, types \in TypeLists, syms \in SymLists }

\* e_shoff one record too far, or so large that adding the table size
\* passes 2^32 (class 32) or 2^64 (class 64)
ShoffFiles ==
    UNION { { ElfFile(cls, shoff, types,
                      ToLE(DataAt(cls, types), OffBytes(cls)),
                      ToLE(0, OffBytes(cls)), <<>>) :
                shoff \in { ToLE(TableAt(cls) + SizeofShdr(cls), OffBytes(cls)),
                            NegLE(SizeofShdr(cls), OffBytes(cls)),
                            NegLE(2 * SizeofShdr(cls), OffBytes(cls)) } }
            : cls \in Classes, types \in TypeLists }

\* symbol-table sections whose data ends one byte past the file, or whose
\* sh_offset + sh_size passes 2^32 (class 32) or 2^64 (class 64)
SymtabFiles ==
    UNION { { ElfFile(cls, ToLE(TableAt(cls), OffBytes(cls)), types,
                      ToLE(DataAt(cls, types), OffBytes(cls)),
                      ToLE(1, OffBytes(cls)), <<>>),
              ElfFile(cls, ToLE(TableAt(cls), OffBytes(cls)), types,
                      NegLE(16, OffBytes(cls)),
                      ToLE(32, OffBytes(cls)), <<>>) }
            : cls \in Classes, types \in TypeLists }

AllFiles == IdentFiles \cup SoundFiles \cup ShoffFiles \cup SymtabFiles

\* the files batches of more than one path are made of
BatchFiles ==
    { RawFile(10, FALSE, 0, 0),
      RawFile(52, FALSE, ELFCLASS32, ELFDATA2LSB),
      RawFile(64, TRUE, ELFCLASS64, ELFDATA2LSB),
      RawFile(64, TRUE, 3, ELFDATA2LSB) }

Argvs ==
    { <<f>> : f \in AllFiles }
      \cup UNION { [1..n -> BatchFiles] : n \in 2..MaxArgs }

(* -------------------------------- state -------------------------------- *)
VARIABLES
    argv,          \* the files named by the path arguments, in order
    size_t_bytes,  \* sizeof(size_t) of the build: 4 or 8
    i,             \* main's loop index (1-based position in argv)
    pc,            \* position in main / parse_file / check_symbols
    fd_open,       \* parse_file holds an open descriptor
    st_size,       \* st.st_size
    mem,           \* the mapped bytes, <<>> while nothing is mapped
    mapped,        \* mmap succeeded in the current parse_file call
    munmaps,       \* munmap calls made by the current parse_file call
    cls,           \* class of the check_symbols instantiation in progress
    si,            \* check_symbols' loop index i
    reads,         \* what the current scan has read: <<kind, index>>
    oob,           \* some byte was read at an offset >= elf_file_size
    checked,       \* check_symbols was invoked by the current parse_file call
    findings,      \* stdout: <<file index, section index>> per "sym:" line
    diag,          \* stderr: <<file index, message>>
    ret,           \* value returned by the parse_file call just finished
    opened,        \* file indexes parse_file was called with, in order
    rets,          \* the values those calls returned, in order
    status         \* exit status of the process

vars == <<argv, size_t_bytes, i, pc, fd_open, st_size, mem, mapped, munmaps,
          cls, si, reads, oob, checked, findings, diag, ret, opened, rets,
          status>>

Init ==
    /\ argv \in Argvs
    /\ size_t_bytes \in {4, 8}
    /\ i = 1
    /\ pc = "main"
    /\ fd_open = FALSE
    /\ st_size = 0
    /\ mem = <<>>
    /\ mapped = FALSE
    /\ munmaps = 0
    /\ cls = 0
    /\ si = 0
    /\ reads = {}
    /\ oob = FALSE
    /\ checked = FALSE
    /\ findings = <<>>
    /\ diag = <<>>
    /\ ret = 0
    /\ opened = <<>>
    /\ rets = <<>>
    /\ status = -1

Say(msgs) == diag' = diag \o [k \in 1..Len(msgs) |-> <<i, msgs[k]>>]

\* return r from parse_file
Return(r) ==
    /\ ret' = r
    /\ rets' = Append(rets, r)
    /\ pc' = "ret"

\* close(fd) with result cok: "if (close(fd) != 0) perror("close()")"
CloseMsg(cok) == IF cok THEN <<>> ELSE <<"close">>

(* -------------------------------- main --------------------------------- *)
\* for (int i = skip_args+1; i < argc; i++) : loop test and call
MainLoop ==
    /\ pc = "main"
    /\ IF i <= Len(argv)
       THEN /\ pc' = "open"
            /\ opened' = Append(opened, i)
            /\ mapped' = FALSE
            /\ munmaps' = 0
            /\ checked' = FALSE
            /\ reads' = {}
            /\ UNCHANGED status
       ELSE /\ pc' = "exit"
            /\ status' = 0
            /\ UNCHANGED <<opened, mapped, munmaps, checked, reads>>
    /\ UNCHANGED <<argv, size_t_bytes, i, fd_open, st_size, mem, cls, si, oob,
                   findings, diag, ret, rets>>

\* the loop as it would be if the result of parse_file were ignored
MainAfterParse_Continue ==
    /\ pc = "ret"
    /\ pc' = "main"
    /\ i' = i + 1
    /\ UNCHANGED <<argv, size_t_bytes, fd_open, st_size, mem, mapped, munmaps,
                   cls, si, reads, oob, checked, findings, diag, ret, opened,
                   rets, status>>

\* if (parse_file(argv[i]) != 0) return 1;
MainAfterParse ==
    /\ pc = "ret"
    /\ IF ret # 0
       THEN /\ pc' = "exit"
            /\ status' = 1
            /\ UNCHANGED i
       ELSE /\ pc' = "main"
            /\ i' = i + 1
            /\ UNCHANGED status
    /\ UNCHANGED <<argv, size_t_bytes, fd_open, st_size, mem, mapped, munmaps,
                   cls, si, reads, oob, checked, findings, diag, ret, opened,
                   rets>>

(* ------------------------------ parse_file ----------------------------- *)
Open ==
    /\ pc = "open"
    /\ \E ok \in BOOLEAN :
         IF ok
         THEN /\ fd_open' = TRUE
              /\ pc' = "fstat"
              /\ UNCHANGED <<diag, ret, rets>>
         ELSE /\ Say(<<"open">>)
              /\ Return(1)
              /\ UNCHANGED fd_open
    /\ UNCHANGED <<argv, size_t_bytes, i, st_size, mem, mapped, munmaps, cls,
                   si, reads, oob, checked, findings, opened, status>>

Fstat ==
    /\ pc = "fstat"
    /\ \E ok \in BOOLEAN, cok \in BOOLEAN :
         IF ok
         THEN /\ st_size' = Len(argv[i])
              /\ pc' = "size"
              /\ UNCHANGED <<fd_open, diag, ret, rets>>
         ELSE /\ Say(<<"fstat">> \o CloseMsg(cok))
              /\ fd_open' = FALSE
              /\ Return(1)
              /\ UNCHANGED st_size
    /\ UNCHANGED <<argv, size_t_bytes, i, mem, mapped, munmaps, cls, si,
                   reads, oob, checked, findings, opened, status>>

\* if (st.st_size < (long long) sizeof(Elf32_Ehdr))
SizeCheck ==
    /\ pc = "size"
    /\ IF st_size < SizeofElf32_Ehdr
       THEN \E cok \in BOOLEAN :
              /\ Say(CloseMsg(cok))
              /\ fd_open' = FALSE
              /\ Return(IF cok THEN 0 ELSE 1)
       ELSE /\ pc' = "mmap"
            /\ UNCHANGED <<fd_open, diag, ret, rets>>
    /\ UNCHANGED <<argv, size_t_bytes, i, st_size, mem, mapped, munmaps, cls,
                   si, reads, oob, checked, findings, opened, status>>

Mmap ==
    /\ pc = "mmap"
    /\ \E ok \in BOOLEAN, cok \in BOOLEAN :
         IF ok
         THEN /\ mem' = argv[i]
              /\ mapped' = TRUE
              /\ pc' = "magic"
              /\ UNCHANGED <<fd_open, diag, ret, rets>>
         ELSE /\ Say(<<"mmap">> \o CloseMsg(cok))
              /\ fd_open' = FALSE
              /\ Return(1)
              /\ UNCHANGED <<mem, mapped>>
    /\ UNCHANGED <<argv, size_t_bytes, i, st_size, munmaps, cls, si, reads,
                   oob, checked, findings, opened, status>>

\* munmap(mem, st.st_size)
Munmap ==
    /\ mem' = <<>>
    /\ munmaps' = munmaps + 1

\* the bytes bytes[lo..hi] are read
ReadsBytes(kind, idx, lo, hi) ==
    /\ reads' = reads \cup {<<kind, idx>>}
    /\ oob' = (oob \/ hi >= st_size)

\* the magic test as it would be if a file without the magic were scanned
\* like any other
Magic_NoSkip ==
    /\ pc = "magic"
    /\ ReadsBytes("ident", 0, 0, 3)
    /\ pc' = "endian"
    /\ UNCHANGED <<argv, size_t_bytes, i, fd_open, st_size, mem, mapped,
                   munmaps, cls, si, checked, findings, diag, ret, opened,
                   rets, status>>

\* bytes[0] == 0x7F && bytes[1] == 'E' && bytes[2] == 'L' && bytes[3] == 'F'
Magic ==
    /\ pc = "magic"
    /\ ReadsBytes("ident", 0, 0, 3)
    /\ IF ReadLE(mem, 0, 4) # ElfMagic
       THEN \E cok \in BOOLEAN :
              /\ Munmap
              /\ Say(CloseMsg(cok))
              /\ fd_open' = FALSE
              /\ Return(IF cok THEN 0 ELSE 1)
       ELSE /\ pc' = "endian"
            /\ UNCHANGED <<fd_open, mem, munmaps, diag, ret, rets>>
    /\ UNCHANGED <<argv, size_t_bytes, i, st_size, mapped, cls, si, checked,
                   findings, opened, status>>

\* if (bytes[/*EI_DATA*/5] != 1)
Endian ==
    /\ pc = "endian"
    /\ ReadsBytes("ident", EI_DATA, EI_DATA, EI_DATA)
    /\ IF ReadLE(mem, EI_DATA, 1)[1] # ELFDATA2LSB
       THEN \E cok \in BOOLEAN :
              /\ Munmap
              /\ Say(<<"endian">> \o CloseMsg(cok))
              /\ fd_open' = FALSE
              /\ Return(IF cok THEN 0 ELSE 1)
       ELSE /\ pc' = "class"
            /\ UNCHANGED <<fd_open, mem, munmaps, diag, ret, rets>>
    /\ UNCHANGED <<argv, size_t_bytes, i, st_size, mapped, cls, si, checked,
                   findings, opened, status>>

\* bit_value = bytes[/*EI_CLASS*/4]; dispatch to an instantiation
Class ==
    /\ pc = "class"
    /\ ReadsBytes("ident", EI_CLASS, EI_CLASS, EI_CLASS)
    /\ IF ReadLE(mem, EI_CLASS, 1)[1] \in {ELFCLASS32, ELFCLASS64}
       THEN /\ cls' = ReadLE(mem, EI_CLASS, 1)[1]
            /\ checked' = TRUE
            /\ pc' = "cs_hdr"
            /\ UNCHANGED <<fd_open, mem, munmaps, diag, ret, rets>>
       ELSE \E cok \in BOOLEAN :
              /\ Munmap
              /\ Say(<<"class">> \o CloseMsg(cok))
              /\ fd_open' = FALSE
              /\ Return(1)
              /\ UNCHANGED <<cls, checked>>
    /\ UNCHANGED <<argv, size_t_bytes, i, st_size, mapped, si, findings,
                   opened, status>>

(* ---------------------------- check_symbols ---------------------------- *)
e_shoff(buf, c) == ReadLE(buf, Off_e_shoff(c), OffBytes(c))
e_shnum(buf, c) == ToNat(ReadLE(buf, Off_e_shnum(c), 2))

Wider(a, b) == IF a > b THEN a ELSE b

\* size_t last_section_header_byte =
\*     elf_hdr->e_shoff + sizeof(ElfSectionHeaderType) * elf_hdr->e_shnum;
\* the product is a size_t, the sum is taken in the wider of the type of
\* e_shoff and size_t, and the result is converted to size_t
last_section_header_byte(buf, c, szt) ==
    Conv(AddLE(e_shoff(buf, c), ToLE(SizeofShdr(c) * e_shnum(buf, c), szt),
               Wider(OffBytes(c), szt)),
         szt)

\* byte offset from bytes of section_header_table + idx, where
\* section_header_table = bytes + elf_hdr->e_shoff (address arithmetic in
\* the width of a pointer)
section_header_entry(buf, c, szt, idx) ==
    AddLE(Conv(e_shoff(buf, c), szt), ToLE(idx * SizeofShdr(c), szt), szt)

\* the n bytes at offset off lie inside a buffer of the given size
InBuffer(off, n, size) ==
    ~GreaterLE(AddLE(off, ToLE(n, 9), 9), ToLE(size, 9))

\* the fields of the section header at offset off of the buffer
ShdrAt(buf, c, off) ==
    [ sh_type   |-> ReadLE(buf, ToNat(off) + Off_sh_type(c), 4),
      sh_offset |-> ReadLE(buf, ToNat(off) + Off_sh_offset(c), OffBytes(c)),
      sh_size   |-> ReadLE(buf, ToNat(off) + Off_sh_size(c), OffBytes(c)) ]

\* what a read of a section header outside the mapping may yield when it
\* does not fault
StrayShdrs(c) ==
    { [ sh_type |-> ToLE(1, 4),
        sh_offset |-> ToLE(0, OffBytes(c)), sh_size |-> ToLE(0, OffBytes(c)) ],
      [ sh_type |-> ToLE(SHT_SYMTAB, 4),
        sh_offset |-> ToLE(0, OffBytes(c)), sh_size |-> ToLE(0, OffBytes(c)) ],
      [ sh_type |-> ToLE(SHT_SYMTAB, 4),
        sh_offset |-> NegLE(1, OffBytes(c)), sh_size |-> ToLE(0, OffBytes(c)) ] }

\* size_t const last_dynamic_section_byte =
\*     section_header_entry->sh_offset + section_header_entry->sh_size;
\* the sum is taken in the type of the two fields, then converted to size_t
last_dynamic_section_byte(hdr, c, szt) ==
    Conv(AddLE(hdr.sh_offset, hdr.sh_size, OffBytes(c)), szt)

\* check_symbols as it would be without its header-size test
CsHeader_NoCheck ==
    /\ pc = "cs_hdr"
    /\ pc' = "cs_shtab"
    /\ UNCHANGED <<argv, size_t_bytes, i, fd_open, st_size, mem, mapped,
                   munmaps, cls, si, reads, oob, checked, findings, diag, ret,
                   opened, rets, status>>

\* if (sizeof(ElfSectionHeaderType) > elf_file_size)
CsHeader ==
    /\ pc = "cs_hdr"
    /\ IF SizeofShdr(cls) > st_size
       THEN /\ Say(<<"hdr">>)
            /\ pc' = "cs_fail"
       ELSE /\ pc' = "cs_shtab"
            /\ UNCHANGED diag
    /\ UNCHANGED <<argv, size_t_bytes, i, fd_open, st_size, mem, mapped,
                   munmaps, cls, si, reads, oob, checked, findings, ret,
                   opened, rets, status>>

\* if (last_section_header_byte > elf_file_size)
CsSectionTable ==
    /\ pc = "cs_shtab"
    /\ reads' = reads \cup {<<"ehdr", 0>>}
    /\ oob' = (oob \/ Off_e_shoff(cls) + OffBytes(cls) > st_size
                   \/ Off_e_shnum(cls) + 2 > st_size)
    /\ IF GreaterLE(last_section_header_byte(mem, cls, size_t_bytes),
                    ToLE(st_size, size_t_bytes))
       THEN /\ Say(<<"shdr">>)
            /\ pc' = "cs_fail"
            /\ UNCHANGED si
       ELSE /\ si' = 1
            /\ pc' = "cs_loop"
            /\ UNCHANGED diag
    /\ UNCHANGED <<argv, size_t_bytes, i, fd_open, st_size, mem, mapped,
                   munmaps, cls, checked, findings, ret, opened, rets,
                   status>>

\* the body of the loop for a section header with the fields hdr
ExamineSection(hdr) ==
    IF hdr.sh_type = ToLE(SHT_SYMTAB, 4)
    THEN IF GreaterLE(last_dynamic_section_byte(hdr, cls, size_t_bytes),
                      ToLE(st_size, size_t_bytes))
         THEN /\ Say(<<"dyn">>)
              /\ pc' = "cs_fail"
              /\ UNCHANGED <<si, findings>>
         ELSE /\ findings' = Append(findings, <<i, si>>)   \* printf("sym: ...")
              /\ si' = si + 1
              /\ UNCHANGED <<pc, diag>>
    ELSE /\ si' = si + 1
         /\ UNCHANGED <<pc, diag, findings>>

\* for (unsigned int i = 1; i < elf_hdr->e_shnum; i++) : one iteration
CsLoop ==
    /\ pc = "cs_loop"
    /\ si < e_shnum(mem, cls)
    /\ LET off == section_header_entry(mem, cls, size_t_bytes, si)
           inb == InBuffer(off, SizeofShdr(cls), st_size)
       IN  /\ reads' = reads \cup {<<"shdr", si>>}
           /\ oob' = (oob \/ ~inb)
           /\ \E hdr \in (IF inb THEN {ShdrAt(mem, cls, off)}
                                 ELSE StrayShdrs(cls)) :
                ExamineSection(hdr)
    /\ UNCHANGED <<argv, size_t_bytes, i, fd_open, st_size, mem, mapped,
                   munmaps, cls, checked, ret, opened, rets, status>>

\* a read of a section header outside the mapping faults: the process is
\* killed by a signal
CsLoopFault ==
    /\ pc = "cs_loop"
    /\ si < e_shnum(mem, cls)
    /\ ~InBuffer(section_header_entry(mem, cls, size_t_bytes, si),
                 SizeofShdr(cls), st_size)
    /\ reads' = reads \cup {<<"shdr", si>>}
    /\ oob' = TRUE
    /\ pc' = "killed"
    /\ UNCHANGED <<argv, size_t_bytes, i, fd_open, st_size, mem, mapped,
                   munmaps, cls, si, checked, findings, diag, ret, opened,
                   rets, status>>

\* the loop ends: return true
CsLoopEnd ==
    /\ pc = "cs_loop"
    /\ ~(si < e_shnum(mem, cls))
    /\ pc' = "msync"
    /\ UNCHANGED <<argv, size_t_bytes, i, fd_open, st_size, mem, mapped,
                   munmaps, cls, si, reads, oob, checked, findings, diag,
                   ret, opened, rets, status>>

\* the failure path of check_symbols as it would be without its munmap
CheckFailed_NoMunmap ==
    /\ pc = "cs_fail"
    /\ \E cok \in BOOLEAN :
         /\ Say(CloseMsg(cok))
         /\ fd_open' = FALSE
         /\ Return(1)
    /\ UNCHANGED <<argv, size_t_bytes, i, st_size, mem, mapped, munmaps, cls,
                   si, reads, oob, checked, findings, opened, status>>

\* check_symbols returned false: munmap, close, return 1
CheckFailed ==
    /\ pc = "cs_fail"
    /\ \E cok \in BOOLEAN :
         /\ Munmap
         /\ Say(CloseMsg(cok))
         /\ fd_open' = FALSE
         /\ Return(1)
    /\ UNCHANGED <<argv, size_t_bytes, i, st_size, mapped, cls, si, reads,
                   oob, checked, findings, opened, status>>

\* msync(mem, st.st_size, MS_SYNC), then munmap and close
Msync ==
    /\ pc = "msync"
    /\ \E ok \in BOOLEAN, cok \in BOOLEAN :
         /\ Munmap
         /\ fd_open' = FALSE
         /\ IF ok
            THEN /\ Return(0)
                 /\ UNCHANGED diag
            ELSE /\ Say(<<"msync">> \o CloseMsg(cok))
                 /\ Return(1)
    /\ UNCHANGED <<argv, size_t_bytes, i, st_size, mapped, cls, si, reads,
                   oob, checked, findings, opened, status>>

Next ==
    \/ MainLoop
    \/ MainAfterParse
    \/ Open
    \/ Fstat
    \/ SizeCheck
    \/ Mmap
    \/ Magic
    \/ Endian
    \/ Class
    \/ CsHeader
    \/ CsSectionTable
    \/ CsLoop
    \/ CsLoopFault
    \/ CsLoopEnd
    \/ CheckFailed
    \/ Msync

Spec == Init /\ [][Next]_vars

(* ------------------------- vocabulary of the claims -------------------- *)
HasDiag(k, m) == \E j \in 1..Len(diag) : diag[j] = <<k, m>>
NoDiag(k)     == \A j \in 1..Len(diag) : diag[j][1] # k
NoFinding(k)  == \A j \in 1..Len(findings) : findings[j][1] # k

\* the current file was opened and its size was obtained; no system call
\* made before the scan of its contents, and no close, failed
OpenedAndStatted == ~HasDiag(i, "open") /\ ~HasDiag(i, "fstat")
NoOsFailure ==
    \A m \in {"open", "fstat", "mmap", "close"} : ~HasDiag(i, m)

HasMagic(f)   == ReadLE(f, 0, 4) = ElfMagic
ClassByte(f)  == ReadLE(f, EI_CLASS, 1)[1]
DataByte(f)   == ReadLE(f, EI_DATA, 1)[1]

\* shorter than the minimum ELF header, or not starting with the magic
NotElf(f) == Len(f) < SizeofElf32_Ehdr \/ ~HasMagic(f)

\* e_shoff + e_shnum * record size as a mathematical integer (9 bytes hold
\* any sum of two 8-byte values)
TableEnd(f, c) ==
    AddLE(e_shoff(f, c), ToLE(SizeofShdr(c) * e_shnum(f, c), 9), 9)
TableOverruns(f, c) == GreaterLE(TableEnd(f, c), ToLE(Len(f), 9))

\* section header s of a file whose section table lies inside the file
SectionOf(f, c, s) ==
    ShdrAt(f, c, AddLE(e_shoff(f, c), ToLE(s * SizeofShdr(c), 9), 9))
IsSymtab(f, c, s) == SectionOf(f, c, s).sh_type = ToLE(SHT_SYMTAB, 4)

\* sh_offset + sh_size as a mathematical integer
DataEnd(f, c, s) ==
    AddLE(SectionOf(f, c, s).sh_offset, SectionOf(f, c, s).sh_size, 9)
DataOverruns(f, c, s) == GreaterLE(DataEnd(f, c, s), ToLE(Len(f), 9))

\* a little-endian ELF file of class 1 or 2 whose header, section table and
\* symbol tables lie inside the file, with a null section 0
WellFormed(f) ==
    /\ Len(f) >= SizeofElf32_Ehdr
    /\ HasMagic(f)
    /\ DataByte(f) = ELFDATA2LSB
    /\ ClassByte(f) \in Classes
    /\ Len(f) >= SizeofEhdr(ClassByte(f))
    /\ ~TableOverruns(f, ClassByte(f))
    /\ e_shnum(f, ClassByte(f)) > 0 => ~IsSymtab(f, ClassByte(f), 0)
    /\ \A s \in 1..(e_shnum(f, ClassByte(f)) - 1) :
         IsSymtab(f, ClassByte(f), s) => ~DataOverruns(f, ClassByte(f), s)

\* number of symbol records of symbol-table section s
SymCount(f, c, s) == ToNat(SectionOf(f, c, s).sh_size) \div SizeofSym(c)

\* symbol record k (from 0) of section s is NOTYPE and undefined
Reportable(f, c, s, k) ==
    LET at == ToNat(SectionOf(f, c, s).sh_offset) + k * SizeofSym(c)
    IN  /\ ReadLE(f, at + Off_st_info(c), 1)[1] % 16 = 0
        /\ ToNat(ReadLE(f, at + Off_st_shndx(c), 2)) = 0

RECURSIVE ReportableIn(_, _, _, _)
ReportableIn(f, c, s, k) ==
    IF k >= SymCount(f, c, s) THEN <<>>
    ELSE (IF Reportable(f, c, s, k) THEN <<s>> ELSE <<>>)
           \o ReportableIn(f, c, s, k + 1)

\* the section index of every reportable symbol of a well-formed file, in
\* section order then entry order
RECURSIVE ReportableFrom(_, _, _)
ReportableFrom(f, c, s) ==
    IF s >= e_shnum(f, c) THEN <<>>
    ELSE (IF IsSymtab(f, c, s) THEN ReportableIn(f, c, s, 0) ELSE <<>>)
           \o ReportableFrom(f, c, s + 1)

\* the section index of every finding emitted for file k, in order
RECURSIVE FindingsOf(_, _)
FindingsOf(k, j) ==
    IF j > Len(findings) THEN <<>>
    ELSE (IF findings[j][1] = k THEN <<findings[j][2]>> ELSE <<>>)
           \o FindingsOf(k, j + 1)

(* -------------------------------- claims ------------------------------- *)

\* C1: when parse_file returns, the mapping has been released by exactly
\* one munmap if mmap succeeded and by none if no mapping was established,
\* and at no point has a call made more than one munmap.
C1_MunmapExactlyOnce ==
    /\ munmaps <= 1
    /\ munmaps = 1 => mapped
    /\ pc = "ret" => /\ munmaps = (IF mapped THEN 1 ELSE 0)
                     /\ mem = <<>>

\* C1 witness: check_symbols failed on a mapped file and parse_file has
\* returned after one munmap.
C1_Witness ==
    pc = "ret" /\ mapped /\ checked /\ ret = 1 /\ munmaps = 1
      /\ HasDiag(i, "shdr")

\* C2: no byte is read at an offset at or beyond the file length.
C2_ReadsInBounds == oob = FALSE

\* C3: once check_symbols is past its section-table check on a file with a
\* complete header whose e_shoff + e_shnum * record size (as a mathematical
\* integer) exceeds the file length, it has failed with the section-header
\* error, no section header has been read, nothing has been emitted, and
\* parse_file returns non-zero.
C3_TruncatedSectionTable ==
    ( /\ checked
      /\ pc \notin {"cs_hdr", "cs_shtab"}
      /\ st_size >= SizeofEhdr(cls)
      /\ TableOverruns(argv[i], cls) )
    => /\ HasDiag(i, "shdr")
       /\ \A r \in reads : r[1] # "shdr"
       /\ NoFinding(i)
       /\ pc = "ret" => ret # 0

\* C4: when parse_file returns for a mapped file with the ELF magic whose
\* data-encoding byte is not little-endian, it has reported the endianness
\* error, returns non-zero, and has parsed nothing beyond the
\* identification bytes.
C4_NonLittleEndianIsFatal ==
    ( /\ pc = "ret"
      /\ mapped
      /\ HasMagic(argv[i])
      /\ DataByte(argv[i]) # ELFDATA2LSB )
    => /\ ret # 0
       /\ HasDiag(i, "endian")
       /\ ~checked
       /\ \A r \in reads : r[1] = "ident"

\* C5: when parse_file returns for a mapped file with the ELF magic whose
\* class byte is neither 1 nor 2, whatever its data-encoding byte, it has
\* reported the invalid-class error, returns non-zero, and check_symbols
\* was not invoked.
C5_InvalidClassIsFatal ==
    ( /\ pc = "ret"
      /\ mapped
      /\ HasMagic(argv[i])
      /\ ClassByte(argv[i]) \notin Classes )
    => /\ ret # 0
       /\ HasDiag(i, "class")
       /\ ~checked

\* C6: when the scan of a well-formed file has completed, the findings
\* emitted for it are, in order, one per symbol record that is NOTYPE with
\* defining-section index 0, and none for any other record.
C6_FindingsAreReportableSymbols ==
    ( /\ pc = "ret"
      /\ ret = 0
      /\ WellFormed(argv[i]) )
    => FindingsOf(i, 1) = ReportableFrom(argv[i], ClassByte(argv[i]), 1)

\* C7: paths are scanned in argument order, each at most once; a non-zero
\* parse_file result is the last one (no later path is opened) and makes
\* the exit status 1; the exit status is 0 only after every path has been
\* scanned with result 0.
C7_BatchStopsAtFirstFatal ==
    /\ opened = [k \in 1..Len(opened) |-> k]
    /\ Len(rets) <= Len(opened)
    /\ Len(opened) <= Len(rets) + 1
    /\ \A k \in 1..Len(rets) : rets[k] # 0 => k = Len(opened)
    /\ (\E k \in 1..Len(rets) : rets[k] # 0) => pc \in {"ret", "exit"}
    /\ pc = "exit" =>
         /\ status \in {0, 1}
         /\ status = 1 <=> (\E k \in 1..Len(rets) : rets[k] # 0)
         /\ status = 0 => /\ Len(opened) = Len(argv)
                          /\ Len(rets) = Len(argv)

\* C7 witness: a two-path batch stopped with status 1 after its first file.
C7_Witness ==
    pc = "exit" /\ status = 1 /\ Len(argv) = 2 /\ opened = <<1>>

C9_TruncatedHeader ==
    /\ ( /\ checked
         /\ pc # "cs_hdr"
         /\ st_size < SizeofEhdr(cls) )
       => /\ HasDiag(i, "hdr")
          /\ <<"ehdr", 0>> \notin reads
          /\ pc = "ret" => ret # 0
    /\ <<"ehdr", 0>> \in reads => st_size >= SizeofEhdr(cls)

\* C9 witness: a class-64 file of 52..63 bytes passed the loader's size
\* test and was rejected by check_symbols with the truncated-header error.
C9_Witness ==
    /\ pc = "ret"
    /\ checked
    /\ cls = ELFCLASS64
    /\ st_size >= SizeofElf32_Ehdr
    /\ st_size < SizeofElf64_Ehdr
    /\ HasDiag(i, "hdr")
    /\ ret = 1

\* C10: in a file whose section table lies inside the file, a finding for
\* section s is emitted only if no symbol-table section from 1 to s has a
\* data end offset sh_offset + sh_size (as a mathematical integer) beyond
\* the file length; section index 0 is never examined.
C10_TruncatedSymbolTable ==
    /\ \A k \in 1..Len(findings) :
         LET f == argv[findings[k][1]]
             c == ClassByte(f)
         IN  ~TableOverruns(f, c) =>
               \A s \in 1..findings[k][2] :
                 IsSymtab(f, c, s) => ~DataOverruns(f, c, s)
    /\ <<"shdr", 0>> \notin reads

====
